---- MODULE Spec2Model ----
(***************************************************************************)
(* InvestigationMCPTools (src/tool/investigation_tools.py): eight async    *)
(* tool operations over an injected client.  Each invocation is a          *)
(* coroutine that runs up to its single `await self.client...` and is      *)
(* resumed with the client's result or exception.                          *)
(*                                                                         *)
(* Text (Python str) is a sequence of tokens: every dynamic piece (digits  *)
(* of an int, characters of a timestamp) is one token per character, a     *)
(* literal fragment of an f-string is one token.  Python values are tagged *)
(* records; a dict is the sequence of its (key, value) pairs in insertion  *)
(* order.                                                                  *)
(***************************************************************************)
EXTENDS Integers, Sequences, FiniteSets, TLC

VARIABLES self, host, inv

vars == <<self, host, inv>>

\* ------------------------------------------------------------------ bounds
NInv == 2
MaxLen == 2

Inv == 1..NInv

\* ------------------------------------------------------------ Python values
PyNone == [t |-> "none"]
PyBool(b) == [t |-> "bool", b |-> b]
PyInt(n) == [t |-> "int", i |-> n]
PyStr(s) == [t |-> "str", s |-> s]
PyList(l) == [t |-> "list", l |-> l]
PyDict(d) == [t |-> "dict", d |-> d]

DigitChars == <<"0", "1", "2", "3", "4", "5", "6", "7", "8", "9">>

RECURSIVE NatStr(_)
NatStr(n) ==
    IF n < 10 THEN <<DigitChars[n + 1]>>
    ELSE NatStr(n \div 10) \o <<DigitChars[(n % 10) + 1]>>

\* str(n) for an int
Str(n) == IF n < 0 THEN <<"-">> \o NatStr(0 - n) ELSE NatStr(n)

RECURSIVE JoinFrom(_, _, _)
JoinFrom(sep, parts, k) ==
    IF k > Len(parts) THEN <<>>
    ELSE IF k = Len(parts) THEN parts[k]
    ELSE parts[k] \o sep \o JoinFrom(sep, parts, k + 1)

\* sep.join(parts), parts a sequence of texts
Join(sep, parts) == JoinFrom(sep, parts, 1)

\* map(str, ids)
MapStr(ids) == [k \in 1..Len(ids) |-> Str(ids[k])]

\* str() of a list of ints, as an f-string renders it: "[10, 20]"
ListRepr(ids) == <<"[">> \o Join(<<", ">>, MapStr(ids)) \o <<"]">>

\* t occurs in s as a contiguous run
Contains(s, t) ==
    \E k \in 1..(Len(s) - Len(t) + 1) : SubSeq(s, k, k + Len(t) - 1) = t

HasKey(d, k) == \E j \in 1..Len(d) : d[j][1] = k
Get(d, k) == d[CHOOSE j \in 1..Len(d) : d[j][1] = k][2]
Keys(d) == {d[j][1] : j \in 1..Len(d)}

\* bool(v)
Truthy(v) ==
    IF v.t = "none" THEN FALSE
    ELSE IF v.t = "bool" THEN v.b
    ELSE IF v.t = "int" THEN v.i # 0
    ELSE IF v.t = "str" THEN v.s # <<>>
    ELSE IF v.t = "list" THEN v.l # <<>>
    ELSE IF v.t = "dict" THEN v.d # <<>>
    ELSE TRUE

TypeName(v) ==
    IF v.t = "none" THEN "NoneType" ELSE v.t

\* v[k] for a str key k: the value, or the exception message
Subscript(v, k) ==
    IF v.t = "dict"
    THEN IF HasKey(v.d, k)
         THEN [ok |-> TRUE, value |-> Get(v.d, k)]
         ELSE [ok |-> FALSE, msg |-> <<"'", k, "'">>]
    ELSE IF v.t = "list"
    THEN [ok |-> FALSE, msg |-> <<"list indices must be integers or slices, not str">>]
    ELSE [ok |-> FALSE, msg |-> <<"'", TypeName(v), "' object is not subscriptable">>]

\* v.get(k): dict.get, or the AttributeError message
DotGet(v, k) ==
    IF v.t = "dict"
    THEN [ok |-> TRUE, value |-> IF HasKey(v.d, k) THEN Get(v.d, k) ELSE PyNone]
    ELSE [ok |-> FALSE, msg |-> <<"'", TypeName(v), "' object has no attribute 'get'">>]

\* ------------------------------------------------------------- json.dumps
\* indent < 0 stands for indent=None
RECURSIVE Spaces(_)
Spaces(n) == IF n <= 0 THEN <<>> ELSE <<" ">> \o Spaces(n - 1)

NewlineIndent(indent, level) ==
    IF indent < 0 THEN <<>> ELSE <<"\n">> \o Spaces(indent * level)

ItemSeparator(indent, level) ==
    IF indent < 0 THEN <<", ">> ELSE <<",">> \o NewlineIndent(indent, level)

RECURSIVE json_encode(_, _, _)
json_encode(v, indent, level) ==
    IF v.t = "none" THEN <<"null">>
    ELSE IF v.t = "bool" THEN (IF v.b THEN <<"true">> ELSE <<"false">>)
    ELSE IF v.t = "int" THEN Str(v.i)
    ELSE IF v.t = "str" THEN <<"\"">> \o v.s \o <<"\"">>
    ELSE IF v.t = "list"
    THEN IF v.l = <<>> THEN <<"[]">>
         ELSE <<"[">> \o NewlineIndent(indent, level + 1)
              \o Join(ItemSeparator(indent, level + 1),
                      [k \in 1..Len(v.l) |-> json_encode(v.l[k], indent, level + 1)])
              \o NewlineIndent(indent, level) \o <<"]">>
    ELSE IF v.d = <<>> THEN <<"{}">>
         ELSE <<"{">> \o NewlineIndent(indent, level + 1)
              \o Join(ItemSeparator(indent, level + 1),
                      [k \in 1..Len(v.d) |->
                          <<"\"", v.d[k][1], "\"", ": ">>
                          \o json_encode(v.d[k][2], indent, level + 1)])
              \o NewlineIndent(indent, level) \o <<"}">>

json_dumps(v, indent) == json_encode(v, indent, 0)

\* ------------------------------------------------- datetime (line 54, 56)
IsDigit(c) == \E k \in 1..10 : DigitChars[k] = c
DigitVal(c) == (CHOOSE k \in 1..10 : DigitChars[k] = c) - 1

RECURSIVE Num(_, _, _)
Num(s, a, b) == IF b < a THEN 0 ELSE Num(s, a, b - 1) * 10 + DigitVal(s[b])

IsLeap(y) == (y % 4 = 0 /\ y % 100 # 0) \/ y % 400 = 0

DaysIn(y, m) ==
    IF m = 2 THEN (IF IsLeap(y) THEN 29 ELSE 28)
    ELSE IF m \in {4, 6, 9, 11} THEN 30 ELSE 31

\* the positions of YYYY-MM-DDTHH:MM:SS that hold digits
DigitPositions == {1, 2, 3, 4, 6, 7, 9, 10, 12, 13, 15, 16, 18, 19}

WellFormed(s) ==
    /\ Len(s) = 19
    /\ s[5] = "-" /\ s[8] = "-" /\ s[11] = "T" /\ s[14] = ":" /\ s[17] = ":"
    /\ \A k \in DigitPositions : IsDigit(s[k])

DateTime(s) ==
    [t |-> "datetime", year |-> Num(s, 1, 4), month |-> Num(s, 6, 7),
     day |-> Num(s, 9, 10), hour |-> Num(s, 12, 13), minute |-> Num(s, 15, 16),
     second |-> Num(s, 18, 19)]

InRange(dt) ==
    /\ dt.year >= 1
    /\ dt.month \in 1..12
    /\ dt.day \in 1..DaysIn(dt.year, dt.month)
    /\ dt.hour <= 23 /\ dt.minute <= 59 /\ dt.second <= 59

\* one bound of the range: None stays None, a string is parsed or rejected
parse_bound(v) ==
    IF v.t = "none" THEN [ok |-> TRUE, value |-> PyNone]
    ELSE IF WellFormed(v.s) /\ InRange(DateTime(v.s))
    THEN [ok |-> TRUE, value |-> DateTime(v.s)]
    ELSE [ok |-> FALSE, msg |-> <<"Invalid date format: ">> \o v.s]

validate_date_range(start, end) ==
    LET a == parse_bound(start)
        b == parse_bound(end)
    IN  IF ~a.ok THEN [ok |-> FALSE, msg |-> a.msg]
        ELSE IF ~b.ok THEN [ok |-> FALSE, msg |-> b.msg]
        ELSE [ok |-> TRUE, start |-> a.value, end |-> b.value]

Pad(n, width) == LET d == NatStr(n) IN [k \in 1..(width - Len(d)) |-> "0"] \o d

\* datetime.isoformat() of a datetime without microseconds or tzinfo
isoformat(dt) ==
    Pad(dt.year, 4) \o <<"-">> \o Pad(dt.month, 2) \o <<"-">> \o Pad(dt.day, 2)
    \o <<"T">> \o Pad(dt.hour, 2) \o <<":">> \o Pad(dt.minute, 2)
    \o <<":">> \o Pad(dt.second, 2)

\* ------------------------------------------------ shape of an invocation
Return(text) == [kind |-> "return", text |-> text]
Raise(msg) == [kind |-> "raise", msg |-> msg]
Pending == [kind |-> "pending"]
NoResp == [kind |-> "none"]

\* client raised / client returned
ClientRaise(msg) == [kind |-> "raise", msg |-> msg]
ClientReturn(v) == [kind |-> "return", value |-> v]

\* a client call: method, positional arguments, keyword arguments in order
Call(method, args, kwargs) == [method |-> method, args |-> args, kwargs |-> kwargs]

\* where the code before the await ends: at the await, or finished already
Await(call) == [kind |-> "call", call |-> call]
Finished(outcome) == [kind |-> "done", outcome |-> outcome]

\* ------------------------------------------------------- the operations
\* list_assignments that validates created_after and then leaves it out
list_assignments_request_unbounded(resolved, created_after) ==
    LET v == validate_date_range(created_after, PyNone)
    IN  IF ~v.ok
        THEN Finished(Raise(<<"Failed to list assignments: ">> \o v.msg))
        ELSE Await(Call("get_assignments", <<>>,
                        << <<"resolved", PyBool(resolved)>> >>))

\* list_assignments, up to the await (lines 50-58)
list_assignments_request(resolved, created_after) ==
    LET v == validate_date_range(created_after, PyNone)
    IN  IF ~v.ok
        THEN Finished(Raise(<<"Failed to list assignments: ">> \o v.msg))
        ELSE Await(Call("get_assignments", <<>>,
                 IF Truthy(v.start)
                 THEN << <<"resolved", PyBool(resolved)>>,
                         <<"created_after", PyStr(isoformat(v.start))>> >>
                 ELSE << <<"resolved", PyBool(resolved)>> >>))

\* list_assignments, from the await on (lines 58-64)
list_assignments_result(resp) ==
    IF resp.kind = "raise"
    THEN Raise(<<"Failed to list assignments: ">> \o resp.msg)
    ELSE IF resp.value.t = "none"
    THEN Return(<<"No assignments found.">>)
    ELSE Return(json_dumps(resp.value, 2))

\* list_assignments_for_user (lines 83-92)
list_assignments_for_user_request(user_id, resolved) ==
    Await(Call("get_assignments", <<>>,
               << <<"assignee", PyInt(user_id)>>, <<"resolved", PyBool(resolved)>> >>))

\* list_assignments_for_user returning the "results" of a mapping alone
list_assignments_for_user_result_results_only(resp) ==
    IF resp.kind = "raise"
    THEN Raise(<<"Failed to list assignments: ">> \o resp.msg)
    ELSE IF resp.value.t = "none"
    THEN Return(<<"No assignments found.">>)
    ELSE IF resp.value.t = "dict" /\ HasKey(resp.value.d, "results")
    THEN Return(json_dumps(Get(resp.value.d, "results"), 2))
    ELSE Return(json_dumps(resp.value, 2))

list_assignments_for_user_result(resp) ==
    IF resp.kind = "raise"
    THEN Raise(<<"Failed to list assignments: ">> \o resp.msg)
    ELSE IF resp.value.t = "none"
    THEN Return(<<"No assignments found.">>)
    ELSE Return(json_dumps(resp.value, 2))

\* get_assignment_detail_by_id (lines 109-114)
get_assignment_detail_by_id_request(assignment_id) ==
    Await(Call("get_assignment", <<PyInt(assignment_id)>>, <<>>))

get_assignment_detail_by_id_result(assignment_id, resp) ==
    IF resp.kind = "raise"
    THEN Raise(<<"Failed to list assignment : ">> \o Str(assignment_id)
               \o <<": ">> \o resp.msg)
    ELSE Return(json_dumps(resp.value, 2))

\* the except clause of get_assignment_for_entity (lines 155-156)
get_assignment_for_entity_wrap(entity_ids, entity_type, msg) ==
    Raise(<<"Failed to fetch assignment for ", entity_type, ": ">>
          \o ListRepr(entity_ids) \o <<": ">> \o msg)

\* get_assignment_for_entity without the check of entity_type
get_assignment_for_entity_request_unchecked(entity_ids, entity_type) ==
    IF entity_type = "host"
    THEN Await(Call("get_assignments", <<>>,
                    << <<"hosts", PyStr(Join(<<",">>, MapStr(entity_ids)))>> >>))
    ELSE Await(Call("get_assignments", <<>>,
                    << <<"accounts", PyStr(Join(<<",">>, MapStr(entity_ids)))>> >>))

\* get_assignment_for_entity joining the ids with ", "
get_assignment_for_entity_request_spaced(entity_ids, entity_type) ==
    IF entity_type \notin {"host", "account"}
    THEN Finished(get_assignment_for_entity_wrap(entity_ids, entity_type,
                     <<"entity_type must be either 'host' or 'account'.">>))
    ELSE IF entity_type = "host"
    THEN Await(Call("get_assignments", <<>>,
                    << <<"hosts", PyStr(Join(<<", ">>, MapStr(entity_ids)))>> >>))
    ELSE Await(Call("get_assignments", <<>>,
                    << <<"accounts", PyStr(Join(<<", ">>, MapStr(entity_ids)))>> >>))

\* get_assignment_for_entity, up to the await (lines 135-149)
get_assignment_for_entity_request(entity_ids, entity_type) ==
    IF entity_type \notin {"host", "account"}
    THEN Finished(get_assignment_for_entity_wrap(entity_ids, entity_type,
                     <<"entity_type must be either 'host' or 'account'.">>))
    ELSE IF entity_type = "host"
    THEN Await(Call("get_assignments", <<>>,
                    << <<"hosts", PyStr(Join(<<",">>, MapStr(entity_ids)))>> >>))
    ELSE Await(Call("get_assignments", <<>>,
                    << <<"accounts", PyStr(Join(<<",">>, MapStr(entity_ids)))>> >>))

\* get_assignment_for_entity, from the await on (lines 149-156)
get_assignment_for_entity_result(entity_ids, entity_type, resp) ==
    IF resp.kind = "raise"
    THEN get_assignment_for_entity_wrap(entity_ids, entity_type, resp.msg)
    ELSE LET results == Subscript(resp.value, "results")
         IN  IF ~results.ok
             THEN get_assignment_for_entity_wrap(entity_ids, entity_type, results.msg)
             ELSE IF ~Truthy(results.value)
             THEN Return(<<"No assignments found for ", entity_type, ": ">>
                         \o ListRepr(entity_ids) \o <<".">>)
             ELSE Return(json_dumps(results.value, 2))

\* the payload of create_assignment (lines 183-191)
assignment_data(assign_to_user_id, assign_entity_id, assign_entity_type) ==
    IF assign_entity_type = "account"
    THEN << <<"assign_to_user_id", PyInt(assign_to_user_id)>>,
            <<"assign_account_id", PyInt(assign_entity_id)>> >>
    ELSE << <<"assign_to_user_id", PyInt(assign_to_user_id)>>,
            <<"assign_host_id", PyInt(assign_entity_id)>> >>

\* create_assignment, up to the await (lines 182-195)
create_assignment_request(assign_to_user_id, assign_entity_id, assign_entity_type) ==
    Await(Call("delete_assignment",
               <<PyDict(assignment_data(assign_to_user_id, assign_entity_id,
                                        assign_entity_type))>>,
               <<>>))

\* create_assignment, from the await on (lines 195-202)
create_assignment_result(resp) ==
    IF resp.kind = "raise"
    THEN Raise(<<"Failed to create assignment: ">> \o resp.msg)
    ELSE LET a == DotGet(resp.value, "assignment")
         IN  IF ~a.ok THEN Raise(<<"Failed to create assignment: ">> \o a.msg)
             ELSE LET id == DotGet(a.value, "id")
                  IN  IF ~id.ok
                      THEN Raise(<<"Failed to create assignment: ">> \o id.msg)
                      ELSE Return(json_dumps(resp.value, -1))

\* create_entity_note, up to the await (lines 224-237)
create_entity_note_request(entity_id, entity_type, note) ==
    IF entity_type \notin {"host", "account"}
    THEN Finished(Raise(<<"Failed to add note to entity ">> \o Str(entity_id)
                        \o <<": ", "entity_type must be either 'host' or 'account'.">>))
    ELSE Await(Call("add_entity_note", <<>>,
                    << <<"entity_id", PyInt(entity_id)>>,
                       <<"type", PyStr(<<entity_type>>)>>,
                       <<"note", PyStr(note)>> >>))

\* create_entity_note, from the await on (lines 237-242)
create_entity_note_result(entity_id, resp) ==
    IF resp.kind = "raise"
    THEN Raise(<<"Failed to add note to entity ">> \o Str(entity_id)
               \o <<": ">> \o resp.msg)
    ELSE Return(json_dumps(resp.value, 2))

\* mark_detection_fixed without the empty-list return
mark_detection_fixed_request_always(detection_ids, mark_fixed) ==
    Await(Call("mark_detection_fixed",
               <<PyList([k \in 1..Len(detection_ids) |-> PyInt(detection_ids[k])]),
                 PyBool(mark_fixed)>>,
               <<>>))

\* mark_detection_fixed, up to the await (lines 264-268)
mark_detection_fixed_request(detection_ids, mark_fixed) ==
    IF detection_ids = <<>>
    THEN Finished(Return(<<"No detection IDs provided.">>))
    ELSE Await(Call("mark_detection_fixed",
                    <<PyList([k \in 1..Len(detection_ids) |-> PyInt(detection_ids[k])]),
                      PyBool(mark_fixed)>>,
                    <<>>))

\* mark_detection_fixed, from the await on (lines 268-271)
mark_detection_fixed_result(detection_ids, mark_fixed, resp) ==
    IF resp.kind = "raise"
    THEN Raise(<<"Failed to mark detections: ">> \o resp.msg)
    ELSE Return(<<"Marked ">> \o Str(Len(detection_ids)) \o <<" detections as ">>
                \o (IF mark_fixed THEN <<"fixed">> ELSE <<"not fixed">>) \o <<".">>)

\* delete_assignment (lines 288-292)
delete_assignment_request(assignment_id) ==
    Await(Call("delete_assignment", <<PyInt(assignment_id)>>, <<>>))

\* delete_assignment that swallows the client's exception
delete_assignment_result_swallow(assignment_id, resp) ==
    Return(<<"Assignment ">> \o Str(assignment_id) \o <<" deleted successfully.">>)

delete_assignment_result(assignment_id, resp) ==
    IF resp.kind = "raise"
    THEN Raise(<<"Failed to delete assignment ">> \o Str(assignment_id)
               \o <<": ">> \o resp.msg)
    ELSE Return(<<"Assignment ">> \o Str(assignment_id) \o <<" deleted successfully.">>)

\* ------------------------------------------------ inputs the host may pass
IdValues == {5, 12}
IdLists == UNION {[1..n -> IdValues] : n \in 0..MaxLen}
EntityTypes == {"host", "account", "user"}
Notes == {<<"c", "h", "e", "c", "k", "e", "d">>}

Stamp2024 == <<"2", "0", "2", "4", "-", "0", "1", "-", "0", "1", "T",
               "0", "0", ":", "0", "0", ":", "0", "0">>
Stamp1999 == <<"1", "9", "9", "9", "-", "1", "2", "-", "3", "1", "T",
               "2", "3", ":", "5", "9", ":", "5", "9">>
NotADate == <<"n", "o", "t", "-", "a", "-", "d", "a", "t", "e">>
BadMonth == <<"2", "0", "2", "4", "-", "1", "3", "-", "0", "1", "T",
              "0", "0", ":", "0", "0", ":", "0", "0">>
CreatedAfterValues ==
    {PyNone, PyStr(Stamp2024), PyStr(Stamp1999), PyStr(NotADate), PyStr(BadMonth)}

FewCreatedAfter == {PyNone, PyStr(Stamp2024), PyStr(NotADate)}

\* ------------------------------------------- what the client may answer
ClientErrors == {<<"HTTP ", "4", "0", "4", ": not found">>}

AssignmentRecord ==
    PyDict(<< <<"id", PyInt(7)>>, <<"resolved", PyBool(FALSE)>> >>)

NoResultsPage ==
    PyDict(<< <<"count", PyInt(0)>>, <<"results", PyList(<<>>)>> >>)
OneResultPage ==
    PyDict(<< <<"count", PyInt(1)>>, <<"results", PyList(<<AssignmentRecord>>)>> >>)

Raises == {ClientRaise(e) : e \in ClientErrors}
Returns(values) == {ClientReturn(v) : v \in values}

GetAssignmentsResponses ==
    Raises \cup Returns({PyNone, PyList(<<>>), PyDict(<<>>), NoResultsPage, OneResultPage})
FewGetAssignmentsResponses == Raises \cup Returns({PyNone, OneResultPage})
GetAssignmentResponses == Raises \cup Returns({AssignmentRecord})
DeleteAssignmentResponses ==
    Raises \cup Returns({PyNone, AssignmentRecord,
                         PyDict(<< <<"assignment", AssignmentRecord>> >>)})
FewDeleteAssignmentResponses ==
    Raises \cup Returns({PyDict(<< <<"assignment", AssignmentRecord>> >>)})
AddEntityNoteResponses ==
    Raises \cup Returns({PyDict(<< <<"id", PyInt(3)>>, <<"note", PyStr(<<"ok">>)>> >>)})
MarkDetectionFixedResponses ==
    Raises \cup Returns({PyDict(<< <<"_meta", PyDict(<<>>)>> >>)})

\* ----------------------------------------------------------------- state
\* the invocations before the host has made any
NoInvocations ==
    [i \in Inv |-> [pc |-> "idle", op |-> "", args |-> <<>>,
                    calls |-> <<>>, resp |-> NoResp, outcome |-> Pending]]

\* __init__ (lines 12-20): the adapter's two fields
Constructed == [vectra_mcp |-> "vectra_mcp", client |-> "client"]

\* a host that makes one invocation, with any of the inputs
Init ==
    /\ self = Constructed
    /\ host = [invocations |-> 1, inputs |-> "all"]
    /\ inv = NoInvocations

\* a host that has up to NInv invocations in flight at once, each with one
\* of a few representative inputs
InitConcurrent ==
    /\ self = Constructed
    /\ host = [invocations |-> NInv, inputs |-> "few"]
    /\ inv = NoInvocations

\* the inputs and answers tried: all of them, or the few
Pick(all, few) == IF host.inputs = "all" THEN all ELSE few

Started == {i \in Inv : inv[i].pc # "idle"}

\* the parameters kept in one place per operation: those of the first
\* invocation of the same operation
Locals_shared(i) ==
    LET same == {j \in Inv : inv[j].op = inv[i].op}
    IN  inv[CHOOSE j \in same : \A k \in same : j <= k].args

\* the parameters of invocation i, held in its own coroutine frame
Locals(i) == inv[i].args

\* invocation i starts and runs to its await, or to its end
CanStart(i) ==
    /\ inv[i].pc = "idle"
    /\ Cardinality(Started) < host.invocations

Start(i, op, args, req) ==
    /\ inv' = [inv EXCEPT ![i] =
                 IF req.kind = "call"
                 THEN [pc |-> "awaiting", op |-> op, args |-> args,
                       calls |-> inv[i].calls \o <<req.call>>,
                       resp |-> NoResp, outcome |-> Pending]
                 ELSE [pc |-> "done", op |-> op, args |-> args,
                       calls |-> inv[i].calls,
                       resp |-> NoResp, outcome |-> req.outcome]]
    /\ UNCHANGED <<self, host>>

\* the client's answer resumes invocation i, which runs to its end
Resume(i, resp, outcome) ==
    /\ inv' = [inv EXCEPT ![i].pc = "done", ![i].resp = resp, ![i].outcome = outcome]
    /\ UNCHANGED <<self, host>>

Awaiting(i, op) == inv[i].pc = "awaiting" /\ inv[i].op = op

Invoke_list_assignments(i) ==
    /\ CanStart(i)
    /\ \E resolved \in Pick(BOOLEAN, {FALSE}),
          created_after \in Pick(CreatedAfterValues, FewCreatedAfter) :
            Start(i, "list_assignments",
                   [resolved |-> resolved, created_after |-> created_after],
                   list_assignments_request(resolved, created_after))

Resume_list_assignments(i) ==
    /\ Awaiting(i, "list_assignments")
    /\ \E resp \in Pick(GetAssignmentsResponses, FewGetAssignmentsResponses) :
           Resume(i, resp, list_assignments_result(resp))

Invoke_list_assignments_for_user(i) ==
    /\ CanStart(i)
    /\ \E user_id \in Pick(IdValues, {5}), resolved \in Pick(BOOLEAN, {TRUE}) :
            Start(i, "list_assignments_for_user",
                   [user_id |-> user_id, resolved |-> resolved],
                   list_assignments_for_user_request(user_id, resolved))

Resume_list_assignments_for_user(i) ==
    /\ Awaiting(i, "list_assignments_for_user")
    /\ \E resp \in Pick(GetAssignmentsResponses, FewGetAssignmentsResponses) :
           Resume(i, resp, list_assignments_for_user_result(resp))

Invoke_get_assignment_detail_by_id(i) ==
    /\ CanStart(i)
    /\ \E assignment_id \in Pick(IdValues, {12}) :
            Start(i, "get_assignment_detail_by_id",
                   [assignment_id |-> assignment_id],
                   get_assignment_detail_by_id_request(assignment_id))

Resume_get_assignment_detail_by_id(i) ==
    /\ Awaiting(i, "get_assignment_detail_by_id")
    /\ \E resp \in GetAssignmentResponses :
           Resume(i, resp,
                  get_assignment_detail_by_id_result(Locals(i).assignment_id, resp))

Invoke_get_assignment_for_entity(i) ==
    /\ CanStart(i)
    /\ \E entity_ids \in Pick(IdLists, {<<5, 12>>}), entity_type \in EntityTypes :
            Start(i, "get_assignment_for_entity",
                   [entity_ids |-> entity_ids, entity_type |-> entity_type],
                   get_assignment_for_entity_request(entity_ids, entity_type))

Resume_get_assignment_for_entity(i) ==
    /\ Awaiting(i, "get_assignment_for_entity")
    /\ \E resp \in Pick(GetAssignmentsResponses, FewGetAssignmentsResponses) :
           Resume(i, resp,
                  get_assignment_for_entity_result(Locals(i).entity_ids,
                                                   Locals(i).entity_type, resp))

Invoke_create_assignment(i) ==
    /\ CanStart(i)
    /\ \E assign_to_user_id \in Pick(IdValues, {5}),
           assign_entity_id \in Pick(IdValues, {12}),
           assign_entity_type \in {"account", "host"} :
            Start(i, "create_assignment",
                   [assign_to_user_id |-> assign_to_user_id,
                    assign_entity_id |-> assign_entity_id,
                    assign_entity_type |-> assign_entity_type],
                   create_assignment_request(assign_to_user_id, assign_entity_id,
                                             assign_entity_type))

Resume_create_assignment(i) ==
    /\ Awaiting(i, "create_assignment")
    /\ \E resp \in Pick(DeleteAssignmentResponses, FewDeleteAssignmentResponses) :
           Resume(i, resp, create_assignment_result(resp))

Invoke_create_entity_note(i) ==
    /\ CanStart(i)
    /\ \E entity_id \in Pick(IdValues, {5}), entity_type \in EntityTypes,
          note \in Notes :
            Start(i, "create_entity_note",
                   [entity_id |-> entity_id, entity_type |-> entity_type, note |-> note],
                   create_entity_note_request(entity_id, entity_type, note))

Resume_create_entity_note(i) ==
    /\ Awaiting(i, "create_entity_note")
    /\ \E resp \in AddEntityNoteResponses :
           Resume(i, resp, create_entity_note_result(Locals(i).entity_id, resp))

Invoke_mark_detection_fixed(i) ==
    /\ CanStart(i)
    /\ \E detection_ids \in Pick(IdLists, {<<>>, <<12, 5>>}),
          mark_fixed \in Pick(BOOLEAN, {TRUE}) :
            Start(i, "mark_detection_fixed",
                   [detection_ids |-> detection_ids, mark_fixed |-> mark_fixed],
                   mark_detection_fixed_request(detection_ids, mark_fixed))

Resume_mark_detection_fixed(i) ==
    /\ Awaiting(i, "mark_detection_fixed")
    /\ \E resp \in MarkDetectionFixedResponses :
           Resume(i, resp,
                  mark_detection_fixed_result(Locals(i).detection_ids,
                                              Locals(i).mark_fixed, resp))

Invoke_delete_assignment(i) ==
    /\ CanStart(i)
    /\ \E assignment_id \in IdValues :
            Start(i, "delete_assignment",
                   [assignment_id |-> assignment_id],
                   delete_assignment_request(assignment_id))

\* delete_assignment that calls the client once more after a failure
Resume_delete_assignment_retry(i) ==
    /\ Awaiting(i, "delete_assignment")
    /\ \E resp \in Pick(DeleteAssignmentResponses, FewDeleteAssignmentResponses) :
           IF resp.kind = "raise" /\ Len(inv[i].calls) = 1
           THEN /\ inv' = [inv EXCEPT ![i].calls = @ \o <<@[1]>>, ![i].resp = resp]
                /\ UNCHANGED <<self, host>>
           ELSE Resume(i, resp, delete_assignment_result(Locals(i).assignment_id, resp))

Resume_delete_assignment(i) ==
    /\ Awaiting(i, "delete_assignment")
    /\ \E resp \in Pick(DeleteAssignmentResponses, FewDeleteAssignmentResponses) :
           Resume(i, resp, delete_assignment_result(Locals(i).assignment_id, resp))

Step(i) ==
    \/ Invoke_list_assignments(i)
    \/ Resume_list_assignments(i)
    \/ Invoke_list_assignments_for_user(i)
    \/ Resume_list_assignments_for_user(i)
    \/ Invoke_get_assignment_detail_by_id(i)
    \/ Resume_get_assignment_detail_by_id(i)
    \/ Invoke_get_assignment_for_entity(i)
    \/ Resume_get_assignment_for_entity(i)
    \/ Invoke_create_assignment(i)
    \/ Resume_create_assignment(i)
    \/ Invoke_create_entity_note(i)
    \/ Resume_create_entity_note(i)
    \/ Invoke_mark_detection_fixed(i)
    \/ Resume_mark_detection_fixed(i)
    \/ Invoke_delete_assignment(i)
    \/ Resume_delete_assignment(i)

Next == \E i \in Inv : Step(i)

Spec == Init /\ [][Next]_vars

SpecConcurrent == InitConcurrent /\ [][Next]_vars

\* ================================================================ claims
Done(i) == inv[i].pc = "done"
Begun(i) == inv[i].pc # "idle"
ValidEntityType(entity_type) == entity_type \in {"host", "account"}

\* C1: an entity_type outside {"host", "account"} makes get_assignment_for_entity
\* and create_entity_note end in a raised error, with no client call issued.
C1_InvalidEntityTypeRejected ==
    \A i \in Inv :
        (/\ inv[i].op \in {"get_assignment_for_entity", "create_entity_note"}
         /\ ~ValidEntityType(inv[i].args.entity_type))
        => /\ Done(i)
           /\ inv[i].outcome.kind = "raise"
           /\ inv[i].calls = <<>>
           /\ inv[i].resp = NoResp

C1_Witness ==
    \E i, j \in Inv :
        /\ inv[i].op = "get_assignment_for_entity" /\ Done(i)
        /\ inv[i].args.entity_type = "user"
        /\ inv[j].op = "create_entity_note" /\ Done(j)
        /\ inv[j].args.entity_type = "user"

\* C2: create_assignment issues a create call carrying the payload (assignee id
\* plus the account-id or host-id field), never the client's delete operation,
\* and on success returns the serialized created assignment.
C2_CreateIssuesCreateCall ==
    \A i \in Inv :
        (inv[i].op = "create_assignment" /\ Begun(i))
        => /\ Len(inv[i].calls) = 1
           /\ inv[i].calls[1].method # "delete_assignment"
           /\ inv[i].calls[1].args =
                  <<PyDict(assignment_data(inv[i].args.assign_to_user_id,
                                           inv[i].args.assign_entity_id,
                                           inv[i].args.assign_entity_type))>>
           /\ (Done(i) /\ inv[i].resp.kind = "return" /\ inv[i].resp.value.t = "dict")
              => inv[i].outcome = Return(json_dumps(inv[i].resp.value, -1))

\* an empty list or an empty dict
EmptyCollection(v) ==
    \/ (v.t = "list" /\ v.l = <<>>)
    \/ (v.t = "dict" /\ v.d = <<>>)

ListOps == {"list_assignments", "list_assignments_for_user"}

\* C3: when get_assignments returns None or an empty collection,
\* list_assignments and list_assignments_for_user return the literal
\* "No assignments found.".
C3_NoResultsSentinel ==
    \A i \in Inv :
        (/\ inv[i].op \in ListOps /\ Done(i)
         /\ inv[i].resp.kind = "return"
         /\ (inv[i].resp.value.t = "none" \/ EmptyCollection(inv[i].resp.value)))
        => inv[i].outcome = Return(<<"No assignments found.">>)

\* C4: list_assignments with a created_after the validator rejects raises the
\* wrapped validation error and issues no client call; with one it accepts,
\* the single get_assignments call carries created_after equal to the parsed
\* timestamp; with none, the call carries the resolved filter only.
C4_CreatedAfter ==
    \A i \in Inv :
        (inv[i].op = "list_assignments" /\ Begun(i))
        => LET created_after == inv[i].args.created_after
               v == validate_date_range(created_after, PyNone)
               resolved == <<"resolved", PyBool(inv[i].args.resolved)>>
           IN  /\ (created_after.t = "str" /\ ~v.ok)
                  => /\ Done(i) /\ inv[i].outcome.kind = "raise"
                     /\ Contains(inv[i].outcome.msg, v.msg)
                     /\ inv[i].calls = <<>>
               /\ (created_after.t = "str" /\ v.ok)
                  => /\ Len(inv[i].calls) = 1
                     /\ inv[i].calls[1].method = "get_assignments"
                     /\ Len(inv[i].calls[1].kwargs) = 2
                     /\ inv[i].calls[1].kwargs[1] = resolved
                     /\ inv[i].calls[1].kwargs[2][1] = "created_after"
                     /\ DateTime(inv[i].calls[1].kwargs[2][2].s) = v.start
                     /\ inv[i].calls[1].kwargs[2][2].s = created_after.s
               /\ created_after.t = "none"
                  => /\ Len(inv[i].calls) = 1
                     /\ inv[i].calls[1].method = "get_assignments"
                     /\ inv[i].calls[1].kwargs = <<resolved>>

C4_Witness ==
    \E i \in Inv :
        /\ inv[i].op = "list_assignments" /\ Done(i)
        /\ inv[i].args.created_after = PyStr(Stamp1999)
        /\ inv[i].calls[1].kwargs[2] = <<"created_after", PyStr(Stamp1999)>>
        /\ inv[i].outcome.kind = "return"

\* C5: mark_detection_fixed issues a client call iff detection_ids is
\* non-empty: the empty list returns "No detection IDs provided." with no call;
\* n >= 1 ids give exactly one batch call carrying all n ids and the flag, and
\* on success the message reports n detections as fixed / not fixed.
C5_MarkDetectionFixed ==
    \A i \in Inv :
        (inv[i].op = "mark_detection_fixed" /\ Begun(i))
        => LET ids == inv[i].args.detection_ids
               flag == inv[i].args.mark_fixed
           IN  /\ ids = <<>>
                  => /\ Done(i)
                     /\ inv[i].outcome = Return(<<"No detection IDs provided.">>)
                     /\ inv[i].calls = <<>>
               /\ ids # <<>>
                  => /\ Len(inv[i].calls) = 1
                     /\ inv[i].calls[1].method = "mark_detection_fixed"
                     /\ inv[i].calls[1].args[1].t = "list"
                     /\ Len(inv[i].calls[1].args[1].l) = Len(ids)
                     /\ \A k \in 1..Len(ids) :
                            inv[i].calls[1].args[1].l[k] = PyInt(ids[k])
                     /\ inv[i].calls[1].args[2] = PyBool(flag)
                     /\ (Done(i) /\ inv[i].resp.kind = "return")
                        => inv[i].outcome =
                               Return(<<"Marked ">> \o Str(Len(ids))
                                      \o <<" detections as ">>
                                      \o <<IF flag THEN "fixed" ELSE "not fixed">>
                                      \o <<".">>)

C5_Witness ==
    \E i \in Inv :
        /\ inv[i].op = "mark_detection_fixed" /\ Done(i)
        /\ Len(inv[i].args.detection_ids) = MaxLen
        /\ ~inv[i].args.mark_fixed
        /\ inv[i].resp.kind = "return"

ReadOps == {"list_assignments", "list_assignments_for_user",
            "get_assignment_detail_by_id", "get_assignment_for_entity"}

\* every key of the mapping d is written, quoted, in the text
EveryKeyIn(d, text) == \A k \in Keys(d) : Contains(text, <<"\"", k, "\"", ": ">>)

\* the output is the JSON text of the whole mapping v
WholeMapping(outcome, v) ==
    /\ outcome = Return(json_dumps(v, 2))
    /\ EveryKeyIn(v.d, outcome.text)

\* C6 as stated: every read operation returns the JSON serialization of the
\* whole mapping the client returned, no field dropped or renamed.
C6_ReadReturnsWholeMapping ==
    \A i \in Inv :
        (/\ inv[i].op \in ReadOps /\ Done(i)
         /\ inv[i].resp.kind = "return" /\ inv[i].resp.value.t = "dict")
        => WholeMapping(inv[i].outcome, inv[i].resp.value)

\* C6 amended: list_assignments, list_assignments_for_user and
\* get_assignment_detail_by_id return the JSON serialization of the whole
\* mapping; get_assignment_for_entity returns the JSON serialization of the
\* mapping's "results" value alone when that is non-empty, the "No assignments
\* found for ..." message when it is empty, and raises when there is no
\* "results" key.
C6_ReadReturnsMappingOrResults ==
    \A i \in Inv :
        (/\ inv[i].op \in ReadOps /\ Done(i)
         /\ inv[i].resp.kind = "return" /\ inv[i].resp.value.t = "dict")
        => IF inv[i].op # "get_assignment_for_entity"
           THEN WholeMapping(inv[i].outcome, inv[i].resp.value)
           ELSE IF ~HasKey(inv[i].resp.value.d, "results")
           THEN inv[i].outcome.kind = "raise"
           ELSE IF Truthy(Get(inv[i].resp.value.d, "results"))
           THEN inv[i].outcome =
                    Return(json_dumps(Get(inv[i].resp.value.d, "results"), 2))
           ELSE /\ inv[i].outcome.kind = "return"
                /\ inv[i].outcome.text[1] = "No assignments found for "

C6_Witness ==
    \E i \in Inv :
        /\ inv[i].op = "list_assignments_for_user" /\ Done(i)
        /\ inv[i].resp = ClientReturn(OneResultPage)
        /\ Contains(inv[i].outcome.text, <<"\"", "count", "\"", ": ", "1">>)

\* C7: get_assignment_for_entity issues one get_assignments call whose only
\* filter is hosts (entity_type "host") or accounts ("account"), its value the
\* ids in their given order joined by commas.
C7_EntityFilter ==
    \A i \in Inv :
        (/\ inv[i].op = "get_assignment_for_entity" /\ Begun(i)
         /\ ValidEntityType(inv[i].args.entity_type))
        => LET ids == inv[i].args.entity_ids
               call == inv[i].calls[1]
           IN  /\ Len(inv[i].calls) = 1
               /\ call.method = "get_assignments"
               /\ call.args = <<>>
               /\ Len(call.kwargs) = 1
               /\ call.kwargs[1][1] =
                      (IF inv[i].args.entity_type = "host" THEN "hosts" ELSE "accounts")
               /\ call.kwargs[1][2] = PyStr(Join(<<",">>, MapStr(ids)))
               /\ (ids = <<5, 12>>) => call.kwargs[1][2].s = <<"5", ",", "1", "2">>
               /\ (ids = <<12, 5>>) => call.kwargs[1][2].s = <<"1", "2", ",", "5">>

C7_Witness ==
    \E i \in Inv :
        /\ inv[i].op = "get_assignment_for_entity"
        /\ inv[i].pc = "awaiting"
        /\ inv[i].args = [entity_ids |-> <<12, 5>>, entity_type |-> "host"]

\* C8: when the client call raises, the invocation ends in a raised error
\* whose message contains the client's message (and, for delete_assignment, the
\* assignment id), never in a returned string; delete_assignment returns its
\* confirmation, which contains the id, only after the delete call succeeded.
C8_FailureIsWrapped ==
    \A i \in Inv :
        /\ inv[i].resp.kind = "raise"
           => /\ Done(i)
              /\ inv[i].outcome.kind = "raise"
              /\ Contains(inv[i].outcome.msg, inv[i].resp.msg)
              /\ inv[i].op = "delete_assignment"
                 => Contains(inv[i].outcome.msg, Str(inv[i].args.assignment_id))
        /\ (inv[i].op = "delete_assignment" /\ inv[i].outcome.kind = "return")
           => /\ inv[i].resp.kind = "return"
              /\ Len(inv[i].calls) = 1
              /\ inv[i].calls[1] =
                     Call("delete_assignment", <<PyInt(inv[i].args.assignment_id)>>, <<>>)
              /\ Contains(inv[i].outcome.text, Str(inv[i].args.assignment_id))

C8_Witness ==
    \E i \in Inv :
        /\ inv[i].op = "delete_assignment" /\ Done(i)
        /\ inv[i].args.assignment_id = 12
        /\ inv[i].resp.kind = "raise"
        /\ inv[i].outcome.kind = "raise"

\* the local validation of an operation's arguments
ValidationPasses(op, args) ==
    IF op \in {"get_assignment_for_entity", "create_entity_note"}
    THEN ValidEntityType(args.entity_type)
    ELSE IF op = "list_assignments"
    THEN validate_date_range(args.created_after, PyNone).ok
    ELSE TRUE

EmptyShortCircuit(op, args) ==
    op = "mark_detection_fixed" /\ args.detection_ids = <<>>

C9_State ==
    \A i \in Inv :
        /\ Len(inv[i].calls) <= 1
        /\ Begun(i)
           => (Len(inv[i].calls) = 1
               <=> (/\ ValidationPasses(inv[i].op, inv[i].args)
                    /\ ~EmptyShortCircuit(inv[i].op, inv[i].args)))
        /\ inv[i].resp.kind = "raise"
           => /\ Done(i)
              /\ inv[i].outcome.kind = "raise"
              /\ Contains(inv[i].outcome.msg, inv[i].resp.msg)

C9_Step ==
    \A i \in Inv :
        /\ Len(inv[i].calls) = 1 => inv'[i].calls = inv[i].calls
        /\ inv[i].pc = "awaiting" /\ inv'[i] # inv[i] => inv'[i].pc = "done"

\* C9: an invocation issues at most one client call, exactly one whenever its
\* local validation passes (the empty-list short-circuit of mark_detection_fixed
\* excepted), and none after a client call failed: the failure ends the
\* invocation at once with the wrapped error.
C9_OneCallNoRetry == []C9_State /\ [][C9_Step]_vars

C9_Witness ==
    \E i, j \in Inv :
        /\ Done(i) /\ inv[i].resp.kind = "raise" /\ Len(inv[i].calls) = 1
        /\ Done(j) /\ inv[j].calls = <<>> /\ inv[j].outcome.kind = "raise"

\* what the invocation of op with args a does when it runs alone and the
\* client answers resp: the calls it issues and how it ends
Alone(op, a, resp) ==
    LET req ==
            CASE op = "list_assignments" ->
                     list_assignments_request(a.resolved, a.created_after)
              [] op = "list_assignments_for_user" ->
                     list_assignments_for_user_request(a.user_id, a.resolved)
              [] op = "get_assignment_detail_by_id" ->
                     get_assignment_detail_by_id_request(a.assignment_id)
              [] op = "get_assignment_for_entity" ->
                     get_assignment_for_entity_request(a.entity_ids, a.entity_type)
              [] op = "create_assignment" ->
                     create_assignment_request(a.assign_to_user_id, a.assign_entity_id,
                                               a.assign_entity_type)
              [] op = "create_entity_note" ->
                     create_entity_note_request(a.entity_id, a.entity_type, a.note)
              [] op = "mark_detection_fixed" ->
                     mark_detection_fixed_request(a.detection_ids, a.mark_fixed)
              [] op = "delete_assignment" ->
                     delete_assignment_request(a.assignment_id)
        res ==
            CASE op = "list_assignments" -> list_assignments_result(resp)
              [] op = "list_assignments_for_user" ->
                     list_assignments_for_user_result(resp)
              [] op = "get_assignment_detail_by_id" ->
                     get_assignment_detail_by_id_result(a.assignment_id, resp)
              [] op = "get_assignment_for_entity" ->
                     get_assignment_for_entity_result(a.entity_ids, a.entity_type, resp)
              [] op = "create_assignment" -> create_assignment_result(resp)
              [] op = "create_entity_note" ->
                     create_entity_note_result(a.entity_id, resp)
              [] op = "mark_detection_fixed" ->
                     mark_detection_fixed_result(a.detection_ids, a.mark_fixed, resp)
              [] op = "delete_assignment" ->
                     delete_assignment_result(a.assignment_id, resp)
    IN  IF req.kind = "done"
        THEN [calls |-> <<>>, outcome |-> req.outcome]
        ELSE [calls |-> <<req.call>>, outcome |-> res]

C10_State ==
    /\ self = Constructed
    /\ \A i \in Inv :
           Done(i) => LET alone == Alone(inv[i].op, inv[i].args, inv[i].resp)
                      IN  /\ inv[i].calls = alone.calls
                          /\ inv[i].outcome = alone.outcome

C10_Step ==
    /\ self' = self
    /\ \A i, j \in Inv : (inv'[i] # inv[i] /\ inv'[j] # inv[j]) => i = j
    /\ \A i \in Inv : Begun(i) => /\ inv'[i].op = inv[i].op
                                  /\ inv'[i].args = inv[i].args

\* C10: with several invocations in flight at once, each ends as it would have
\* alone with the same arguments and the same client answer; a step of one
\* invocation changes nothing of another, and the adapter's fields stay as
\* constructed.
C10_Independent == []C10_State /\ [][C10_Step]_vars

C10_Witness ==
    \E i, j \in Inv :
        /\ i < j
        /\ inv[i].op = "delete_assignment" /\ inv[j].op = "delete_assignment"
        /\ inv[i].args.assignment_id # inv[j].args.assignment_id
        /\ inv[i].pc = "awaiting"
        /\ Done(j) /\ inv[j].outcome.kind = "return"

====
